---- MODULE Spec2Model ----
(***************************************************************************)
(* A model of the DuckDB Arrow Flight server (src/server.py) and of the    *)
(* client's run_query flow (src/client.py).                                 *)
(*                                                                         *)
(* Worker threads of the Flight server run the handlers get_flight_info,   *)
(* do_get, do_action and list_flights concurrently.  The shared state is   *)
(* the registry self.db_connections, the lock self.lock and the DuckDB     *)
(* connections the registry (or a running request) refers to.              *)
(***************************************************************************)
EXTENDS Integers, Sequences, FiniteSets

(***************************************************************************)
(* Bounds of the model.                                                    *)
(***************************************************************************)
\* number of DuckDB connections the server may construct in one behaviour
MaxHandles == 2

\* the worker threads that serve requests concurrently
Threads == {"t1", "t2"}
NoThread == "none"

(***************************************************************************)
(* Bytes.  A command, a ticket or an action body is a sequence of JSON     *)
(* tokens; json_dumps writes such a sequence and json_loads parses it.     *)
(***************************************************************************)
LB == [t |-> "{", s |-> ""]
RB == [t |-> "}", s |-> ""]
Str(x) == [t |-> "str", s |-> x]
Null == [t |-> "null", s |-> ""]
\* a JSON array literal such as ["x"]: a non-empty Python list
Arr == [t |-> "list", s |-> ""]
\* bytes that are no JSON text (or no UTF-8)
Junk == [t |-> "junk", s |-> ""]

IsValue(tok) == tok.t \in {"str", "null", "list"}

\* client.py: json.dumps(query_info).encode('utf-8') of the dict built in run_query
json_dumps(query, catalog_arn, client_id) ==
    << LB, Str("query"), Str(query), Str("catalog_arn"), Str(catalog_arn),
       Str("client_id"), Str(client_id), RB >>

\* the text of an object: { key value key value ... }
IsObjectText(b) ==
    /\ Len(b) >= 2
    /\ b[1] = LB
    /\ b[Len(b)] = RB
    /\ (Len(b) - 2) % 2 = 0
    /\ \A i \in 2..(Len(b) - 1) :
          IF i % 2 = 0 THEN b[i].t = "str" ELSE IsValue(b[i])

\* the dict of an object text; of two equal keys the later one wins
ObjectOf(b) ==
    LET keys == { b[i].s : i \in { j \in 2..(Len(b) - 1) : j % 2 = 0 } }
        lastAt(k) == CHOOSE i \in 2..(Len(b) - 1) :
                        /\ i % 2 = 0
                        /\ b[i].s = k
                        /\ \A j \in 2..(Len(b) - 1) :
                              (j % 2 = 0 /\ b[j].s = k) => j <= i
    IN  [k \in keys |-> b[lastAt(k) + 1]]

\* json.loads(bytes.decode('utf-8')): the exception raised (<< >> when none),
\* whether the value is a dict, and the dict
json_loads(b) ==
    IF IsObjectText(b)
    THEN [exc |-> <<>>, isDict |-> TRUE, d |-> ObjectOf(b)]
    ELSE IF Len(b) = 1 /\ IsValue(b[1])
    THEN [exc |-> <<>>, isDict |-> FALSE, d |-> << >>]
    ELSE [exc |-> <<"JSONDecodeError">>, isDict |-> FALSE, d |-> << >>]

\* dict.get(key, default)
get(d, key, default) == IF key \in DOMAIN d THEN d[key] ELSE default

\* Python truth of a decoded JSON value: None and "" are false
Truthy(v) == (v.t = "str" /\ v.s # "") \/ v.t = "list"

\* a list is unhashable, so it cannot be looked up in a dict
Hashable(v) == v.t # "list"

(***************************************************************************)
(* The inputs the clients send.                                            *)
(***************************************************************************)
SQL_QUERY == "SELECT 1"

\* commands of get_flight_info and tickets of do_get
Commands ==
    { json_dumps(SQL_QUERY, "catA", "c1"),
      json_dumps(SQL_QUERY, "catB", "c1"),
      << LB, Str("query"), Str(SQL_QUERY), Str("catalog_arn"), Str("catA"), RB >>,
      json_dumps("", "catA", "c1"),
      << LB, Str("query"), Str(SQL_QUERY), Str("client_id"), Str("c1"), RB >>,
      << Junk >>,
      << Arr >>,
      << LB, Str("query"), Str(SQL_QUERY), Str("catalog_arn"), Str("catA"),
         Str("client_id"), Arr, RB >> }

\* bodies of do_action
ActionBodies ==
    { << LB, Str("client_id"), Str("c1"), RB >>,
      << LB, RB >>,
      << Junk >>,
      << Arr >>,
      << LB, Str("client_id"), Arr, RB >> }

ActionTypes == {"close_connection", "refresh"}

(***************************************************************************)
(* The DuckDB engine, seen through the calls server.py makes on it.        *)
(***************************************************************************)
\* the statements _get_connection executes on a new connection, in order
SetupStatements ==
    << "INSTALL aws;", "LOAD aws;", "INSTALL httpfs;", "LOAD httpfs;",
       "INSTALL iceberg;", "LOAD iceberg;", "INSTALL parquet;", "LOAD parquet;",
       "CALL load_aws_credentials();", "CREATE SECRET" >>

Handles == 1..MaxHandles
NoHandle == 0
NoCatalog == ""

\* a connection that duckdb.connect has not returned yet
Unborn == [state |-> "unborn", setup |-> 0, attached |-> NoCatalog]
\* a connection that close() has closed, or that was dropped when its setup
\* raised (no reference to it is left): nothing is attached in it any more
Closed == [state |-> "closed", setup |-> 0, attached |-> NoCatalog]

(***************************************************************************)
(* What the handlers return to the transport.                              *)
(***************************************************************************)
NoTable == [columns |-> << >>, rows |-> << >>]

NoResult ==
    [kind |-> "none", endpoints |-> << >>, schema |-> << >>,
     total_records |-> 0, table |-> NoTable, body |-> << >>, exc |-> << >>]

\* a ticket written anew from the decoded request instead of the command's bytes
FlightInfo_reencoded(command) ==
    LET d == json_loads(command).d
    IN  [NoResult EXCEPT
            !.kind = "FlightInfo",
            !.schema = << "query_id", "status" >>,
            !.endpoints =
                << [ticket |-> json_dumps(get(d, "query", Null).s,
                                          get(d, "catalog_arn", Null).s,
                                          get(d, "client_id", Str("default")).s),
                    location |-> "self.location"] >>,
            !.total_records = -1]

\* flight.FlightInfo(schema, descriptor, endpoints, -1, -1)
FlightInfo(command) ==
    [NoResult EXCEPT !.kind = "FlightInfo",
                     !.schema = << "query_id", "status" >>,
                     !.endpoints = << [ticket |-> command, location |-> "self.location"] >>,
                     !.total_records = -1]

\* raise flight.FlightServerError(f"Failed to process query request: {str(e)}")
FlightServerError(e) ==
    [NoResult EXCEPT !.kind = "FlightServerError",
                     !.exc = << "Failed to process query request: " >> \o e]

\* pa.Table.from_pydict({"error": [str(e)], "details": ["Query execution failed"]})
error_table(e) ==
    [columns |-> << "error", "details" >>,
     rows |-> << << e, << "Query execution failed" >> >> >>]

\* conn.execute(query).fetch_arrow_table() of a query that succeeds
result_table(query) ==
    [columns |-> << "result" >>, rows |-> << << << query >> >> >>]

\* flight.RecordBatchStream(table)
RecordBatchStream(table) ==
    [NoResult EXCEPT !.kind = "RecordBatchStream", !.table = table]

\* [flight.Result(body)]
ActionResult(body) == [NoResult EXCEPT !.kind = "Results", !.body = body]

\* the messages of the exceptions the handlers raise themselves or meet
MissingParameters == << "Missing required parameters: query and catalog_arn" >>
NotADict == << "AttributeError: object has no attribute 'get'" >>
Unhashable == << "TypeError: unhashable type: 'list'" >>
KeyErr == << "KeyError" >>
ConnectionClosed == << "duckdb.ConnectionException: connection closed" >>

(***************************************************************************)
(* State.                                                                  *)
(***************************************************************************)
VARIABLES
    db_connections,  \* self.db_connections: client_id -> connection
    lock,            \* self.lock: the thread that holds it, or NoThread
    conns,           \* every connection duckdb.connect can return
    pc,              \* where each worker thread is in its handler
    req,             \* the request a thread serves
    loc,             \* the handler's local variables
    result           \* what the handler returned or raised

vars == << db_connections, lock, conns, pc, req, loc, result >>

NoRequest == [op |-> "none", bytes |-> << >>, type |-> ""]

NoLocals ==
    [client_id |-> Null, catalog_arn |-> Null, query |-> Null,
     conn |-> NoHandle, attach |-> ""]

\* DuckDBFlightServer.__init__
Init ==
    /\ db_connections = << >>
    /\ lock = NoThread
    /\ conns = [h \in Handles |-> Unborn]
    /\ pc = [t \in Threads |-> "idle"]
    /\ req = [t \in Threads |-> NoRequest]
    /\ loc = [t \in Threads |-> NoLocals]
    /\ result = [t \in Threads |-> NoResult]

\* leaving a "with self.lock:" block, by its end or by an exception
Release(t) == IF lock = t THEN NoThread ELSE lock

\* a handler ends: it returns (or raises) r
Finish(t, r) ==
    /\ pc' = [pc EXCEPT ![t] = "done"]
    /\ result' = [result EXCEPT ![t] = r]

(***************************************************************************)
(* list_flights                                                            *)
(***************************************************************************)
list_flights(t) ==
    /\ pc[t] = "idle"
    /\ req' = [req EXCEPT ![t] = [NoRequest EXCEPT !.op = "list_flights"]]
    /\ Finish(t, [NoResult EXCEPT !.kind = "list"])
    /\ UNCHANGED << db_connections, lock, conns, loc >>

(***************************************************************************)
(* get_flight_info                                                         *)
(***************************************************************************)
\* a validation that rejects only a request that lacks both parameters
gfi_missing_both(query_info) ==
    /\ ~Truthy(get(query_info, "query", Null))
    /\ ~Truthy(get(query_info, "catalog_arn", Null))

\* the basic validation of get_flight_info
gfi_missing(query_info) ==
    \/ ~Truthy(get(query_info, "query", Null))
    \/ ~Truthy(get(query_info, "catalog_arn", Null))

\* what get_flight_info returns or raises for a descriptor's command
FlightInfoOf(command) ==
    LET parsed == json_loads(command)
    IN  IF parsed.exc # << >> THEN FlightServerError(parsed.exc)
        ELSE IF ~parsed.isDict THEN FlightServerError(NotADict)
        ELSE IF gfi_missing(parsed.d) THEN FlightServerError(MissingParameters)
        ELSE FlightInfo(command)

get_flight_info(t) ==
    /\ pc[t] = "idle"
    /\ \E command \in Commands :
         /\ req' = [req EXCEPT ![t] =
                       [op |-> "get_flight_info", bytes |-> command, type |-> ""]]
         /\ Finish(t, FlightInfoOf(command))
    /\ UNCHANGED << db_connections, lock, conns, loc >>

(***************************************************************************)
(* do_get, with _get_connection inlined at its call                        *)
(***************************************************************************)
\* a do_get without its except clause: the exception reaches the transport
dg_except_raise(t, e) == Finish(t, [NoResult EXCEPT !.kind = "FlightServerError", !.exc = e])

\* the except clause of do_get: the error table is returned as a stream
dg_except(t, e) == Finish(t, RecordBatchStream(error_table(e)))

\* a validation that rejects only a ticket that lacks both parameters
dg_missing_both(query, catalog_arn) == ~Truthy(query) /\ ~Truthy(catalog_arn)

\* "if not query or not catalog_arn"
dg_missing(query, catalog_arn) == ~Truthy(query) \/ ~Truthy(catalog_arn)

\* the ticket is decoded and validated; a valid one goes on to resolve the session
dg_decode(t, ticket) ==
    LET parsed == json_loads(ticket)
        query == get(parsed.d, "query", Null)
        catalog_arn == get(parsed.d, "catalog_arn", Null)
        client_id == get(parsed.d, "client_id", Str("default"))
    IN  /\ req' = [req EXCEPT ![t] = [op |-> "do_get", bytes |-> ticket, type |-> ""]]
        /\ IF parsed.exc # << >>
           THEN dg_except(t, parsed.exc) /\ loc' = [loc EXCEPT ![t] = NoLocals]
           ELSE IF ~parsed.isDict
           THEN dg_except(t, NotADict) /\ loc' = [loc EXCEPT ![t] = NoLocals]
           ELSE /\ loc' = [loc EXCEPT ![t] =
                              [NoLocals EXCEPT !.query = query,
                                               !.catalog_arn = catalog_arn,
                                               !.client_id = client_id]]
                /\ IF dg_missing(query, catalog_arn)
                   THEN dg_except(t, MissingParameters)
                   ELSE pc' = [pc EXCEPT ![t] = "gc_lock"] /\ UNCHANGED result
        /\ UNCHANGED << db_connections, lock, conns >>

\* a client redeems a ticket of its own making
do_get(t) ==
    /\ pc[t] = "idle"
    /\ \E ticket \in Commands : dg_decode(t, ticket)

\* client.py, run_query: the ticket of the first endpoint is redeemed
run_query_do_get(t) ==
    /\ pc[t] = "done"
    /\ result[t].kind = "FlightInfo"
    /\ result[t].endpoints # << >>
    /\ dg_decode(t, result[t].endpoints[1].ticket)

\* a resolve that does not take the lock
gc_lock_nowait(t) ==
    /\ pc[t] = "gc_lock"
    /\ pc' = [pc EXCEPT ![t] = "gc_check"]
    /\ UNCHANGED << db_connections, lock, conns, req, loc, result >>

\* _get_connection: "with self.lock:"
gc_lock(t) ==
    /\ pc[t] = "gc_lock"
    /\ lock = NoThread
    /\ lock' = t
    /\ pc' = [pc EXCEPT ![t] = "gc_check"]
    /\ UNCHANGED << db_connections, conns, req, loc, result >>

\* a forgotten presence test: a connection is constructed on every resolve
gc_present_never(client_id) == FALSE

\* "client_id in self.db_connections"
gc_present(client_id) == client_id \in DOMAIN db_connections

\* _get_connection: "if client_id not in self.db_connections"
gc_check(t) ==
    /\ pc[t] = "gc_check"
    /\ IF ~Hashable(loc[t].client_id)
       THEN /\ lock' = Release(t)
            /\ dg_except(t, Unhashable)
       ELSE /\ pc' = [pc EXCEPT ![t] =
                         IF gc_present(loc[t].client_id.s)
                         THEN "gc_return" ELSE "gc_create"]
            /\ UNCHANGED << lock, result >>
    /\ UNCHANGED << db_connections, conns, req, loc >>

\* one connection kept for every client: an open connection is handed out again
NewHandle_shared ==
    IF \E h \in Handles : conns[h].state = "open"
    THEN CHOOSE h \in Handles : conns[h].state = "open"
    ELSE CHOOSE h \in Handles : conns[h].state = "unborn"

\* the connection duckdb.connect returns next
NewHandle ==
    CHOOSE h \in Handles :
        conns[h].state = "unborn" /\ \A g \in Handles : g < h => conns[g].state # "unborn"

\* the registry after "self.db_connections[client_id] = conn"
gc_insert(client_id, conn) ==
    [k \in DOMAIN db_connections \cup {client_id} |->
        IF k = client_id THEN conn ELSE db_connections[k]]

\* a construction that registers the connection before it runs the setup
gc_create_registers_first(t) ==
    /\ pc[t] = "gc_create"
    /\ \E h \in Handles : conns[h].state = "unborn"
    /\ \E done \in 0..Len(SetupStatements) :
         /\ conns' = [conns EXCEPT ![NewHandle] =
                         [state |-> "open", setup |-> done, attached |-> NoCatalog]]
         /\ db_connections' = gc_insert(loc[t].client_id.s, NewHandle)
         /\ IF done = Len(SetupStatements)
            THEN /\ pc' = [pc EXCEPT ![t] = "gc_return"]
                 /\ UNCHANGED << lock, result >>
            ELSE /\ lock' = Release(t)
                 /\ dg_except(t, << "duckdb.Error: ", SetupStatements[done + 1] >>)
    /\ UNCHANGED << req, loc >>

\* _get_connection: connect, run the setup statements, register the connection.
\* done is the number of setup statements that succeed before one raises.
gc_create(t) ==
    /\ pc[t] = "gc_create"
    /\ \E h \in Handles : conns[h].state = "unborn"
    /\ \E done \in 0..Len(SetupStatements) :
         IF done = Len(SetupStatements)
         THEN /\ conns' = [conns EXCEPT ![NewHandle] =
                              [state |-> "open", setup |-> done, attached |-> NoCatalog]]
              /\ db_connections' = gc_insert(loc[t].client_id.s, NewHandle)
              /\ pc' = [pc EXCEPT ![t] = "gc_return"]
              /\ UNCHANGED << lock, result >>
         ELSE /\ conns' = [conns EXCEPT ![NewHandle] = Closed]
              /\ lock' = Release(t)
              /\ dg_except(t, << "duckdb.Error: ", SetupStatements[done + 1] >>)
              /\ UNCHANGED db_connections
    /\ UNCHANGED << req, loc >>

\* a do_get that attaches only when the connection has no catalog yet
gc_return_skips_attach(t) ==
    /\ pc[t] = "gc_return"
    /\ loc[t].client_id.s \in DOMAIN db_connections
    /\ lock' = Release(t)
    /\ loc' = [loc EXCEPT ![t].conn = db_connections[loc[t].client_id.s]]
    /\ pc' = [pc EXCEPT ![t] =
                 IF conns[db_connections[loc[t].client_id.s]].attached # NoCatalog
                 THEN "dg_execute" ELSE "dg_attach"]
    /\ UNCHANGED << db_connections, conns, req, result >>

\* a do_get whose attach and execute are inside the "with self.lock:" block
gc_return_holding(t) ==
    /\ pc[t] = "gc_return"
    /\ loc[t].client_id.s \in DOMAIN db_connections
    /\ loc' = [loc EXCEPT ![t].conn = db_connections[loc[t].client_id.s]]
    /\ pc' = [pc EXCEPT ![t] = "dg_attach"]
    /\ UNCHANGED << db_connections, lock, conns, req, result >>

\* _get_connection: "return self.db_connections[client_id]", leaving the lock
gc_return(t) ==
    /\ pc[t] = "gc_return"
    /\ lock' = Release(t)
    /\ IF loc[t].client_id.s \in DOMAIN db_connections
       THEN /\ loc' = [loc EXCEPT ![t].conn = db_connections[loc[t].client_id.s]]
            /\ pc' = [pc EXCEPT ![t] = "dg_attach"]
            /\ UNCHANGED result
       ELSE /\ dg_except(t, KeyErr)
            /\ UNCHANGED loc
    /\ UNCHANGED << db_connections, conns, req >>

\* an attach under a name made from the catalog_arn: only the same catalog
\* "already exists"
AttachOutcomes_by_arn(h, catalog_arn) ==
    IF conns[h].state # "open" THEN {"closed"}
    ELSE IF conns[h].attached = catalog_arn.s THEN {"already exists"}
    ELSE {"attached", "failed"}

\* what the engine answers to ATTACH '<catalog_arn>' AS s3_tables_db on
\* connection h: the outcomes it can have.  Every attach uses the one name
\* s3_tables_db, so the name exists as soon as any catalog is attached.
AttachOutcomes(h, catalog_arn) ==
    IF conns[h].state # "open" THEN {"closed"}
    ELSE IF conns[h].attached # NoCatalog THEN {"already exists"}
    ELSE {"attached", "failed"}

\* an attach attempt without its own try: only a successful attach goes on
dg_after_attach_fatal(outcome) ==
    IF outcome = "attached" THEN "dg_execute" ELSE "dg_except"

\* where do_get goes on after the attach attempt: every exception of the attach
\* is caught, and logged unless it says "already exists"
dg_after_attach(outcome) == "dg_execute"

\* an attach that waits while another request uses the same connection
dg_attach_exclusive(t) ==
    /\ pc[t] = "dg_attach"
    /\ \A u \in Threads \ {t} :
          ~(pc[u] = "dg_execute" /\ loc[u].conn = loc[t].conn)
    /\ \E outcome \in AttachOutcomes(loc[t].conn, loc[t].catalog_arn) :
         /\ conns' = IF outcome = "attached"
                     THEN [conns EXCEPT ![loc[t].conn].attached = loc[t].catalog_arn.s]
                     ELSE conns
         /\ loc' = [loc EXCEPT ![t].attach = outcome]
         /\ pc' = [pc EXCEPT ![t] = "dg_execute"]
         /\ UNCHANGED result
    /\ UNCHANGED << db_connections, lock, req >>

\* do_get: the attach attempt
dg_attach(t) ==
    /\ pc[t] = "dg_attach"
    /\ \E outcome \in AttachOutcomes(loc[t].conn, loc[t].catalog_arn) :
         /\ conns' = IF outcome = "attached"
                     THEN [conns EXCEPT ![loc[t].conn].attached = loc[t].catalog_arn.s]
                     ELSE conns
         /\ loc' = [loc EXCEPT ![t].attach = outcome]
         /\ IF dg_after_attach(outcome) = "dg_execute"
            THEN pc' = [pc EXCEPT ![t] = "dg_execute"] /\ UNCHANGED result
            ELSE dg_except(t, << "duckdb.Error: ATTACH: ", outcome >>)
    /\ UNCHANGED << db_connections, lock, req >>

\* what conn.execute(query).fetch_arrow_table() can do on connection h
ExecuteOutcomes(h, query) ==
    IF conns[h].state # "open" THEN {"closed"}
    ELSE IF query.t # "str" THEN {"failed"}
    ELSE {"ok", "failed"}

\* a do_get that closes and forgets the session of a query that failed
dg_execute_evicts(t) ==
    /\ pc[t] = "dg_execute"
    /\ \E outcome \in ExecuteOutcomes(loc[t].conn, loc[t].query) :
         IF outcome = "ok"
         THEN /\ Finish(t, RecordBatchStream(result_table(loc[t].query.s)))
              /\ UNCHANGED << db_connections, conns >>
         ELSE /\ dg_except(t, << "duckdb.Error: ", loc[t].query.s >>)
              /\ conns' = [conns EXCEPT ![loc[t].conn] = Closed]
              /\ db_connections' =
                    [k \in { c \in DOMAIN db_connections :
                                db_connections[c] # loc[t].conn } |-> db_connections[k]]
    /\ UNCHANGED << lock, req, loc >>

\* do_get: the query is executed and its table, or the error table, returned
dg_execute(t) ==
    /\ pc[t] = "dg_execute"
    /\ \E outcome \in ExecuteOutcomes(loc[t].conn, loc[t].query) :
         IF outcome = "ok"
         THEN Finish(t, RecordBatchStream(result_table(loc[t].query.s)))
         ELSE IF outcome = "closed"
         THEN dg_except(t, ConnectionClosed)
         ELSE dg_except(t, << "duckdb.Error: ", loc[t].query.s >>)
    /\ UNCHANGED << db_connections, lock, conns, req, loc >>

(***************************************************************************)
(* do_action                                                               *)
(***************************************************************************)
\* a do_action without its except clause
da_except_raise(t, e) == Finish(t, [NoResult EXCEPT !.kind = "FlightServerError", !.exc = e])

\* the except clause of do_action: [flight.Result(f"Error: {str(e)}")]
da_except(t, e) == Finish(t, ActionResult(<< "Error: " >> \o e))

\* a confirmation that tells whether a connection was closed
da_confirmation_tells(existed) ==
    ActionResult(IF existed THEN << "Connection closed" >> ELSE << "No connection" >>)

\* what close_connection returns when no exception was raised; existed tells
\* whether the client_id was in the registry
da_confirmation(existed) == ActionResult(<< "Connection closed" >>)

\* a teardown that forgets the del
da_remove_nothing(client_id) == db_connections

\* a teardown that empties the registry
da_remove_all(client_id) == << >>

\* the registry after "del self.db_connections[client_id]"
da_remove(client_id) ==
    [k \in DOMAIN db_connections \ {client_id} |-> db_connections[k]]

\* the action's type is looked at and, for close_connection, its body decoded
do_action(t) ==
    /\ pc[t] = "idle"
    /\ \E type \in ActionTypes, body \in ActionBodies :
         LET parsed == json_loads(body)
         IN  /\ req' = [req EXCEPT ![t] = [op |-> "do_action", bytes |-> body, type |-> type]]
             /\ IF type # "close_connection"
                THEN Finish(t, ActionResult(<< "Unknown action" >>)) /\ UNCHANGED loc
                ELSE IF parsed.exc # << >>
                THEN da_except(t, parsed.exc) /\ UNCHANGED loc
                ELSE IF ~parsed.isDict
                THEN da_except(t, NotADict) /\ UNCHANGED loc
                ELSE /\ loc' = [loc EXCEPT ![t] =
                                   [NoLocals EXCEPT !.client_id =
                                       get(parsed.d, "client_id", Str("default"))]]
                     /\ pc' = [pc EXCEPT ![t] = "da_lock"]
                     /\ UNCHANGED result
    /\ UNCHANGED << db_connections, lock, conns >>

\* a teardown that does not take the lock
da_lock_nowait(t) ==
    /\ pc[t] = "da_lock"
    /\ pc' = [pc EXCEPT ![t] = "da_close"]
    /\ UNCHANGED << db_connections, lock, conns, req, loc, result >>

\* a teardown that waits until no request holds a resolved connection
da_lock_drains(t) ==
    /\ pc[t] = "da_lock"
    /\ lock = NoThread
    /\ \A u \in Threads : pc[u] \notin {"dg_attach", "dg_execute"}
    /\ lock' = t
    /\ pc' = [pc EXCEPT ![t] = "da_close"]
    /\ UNCHANGED << db_connections, conns, req, loc, result >>

\* close_connection: "with self.lock:"
da_lock(t) ==
    /\ pc[t] = "da_lock"
    /\ lock = NoThread
    /\ lock' = t
    /\ pc' = [pc EXCEPT ![t] = "da_close"]
    /\ UNCHANGED << db_connections, conns, req, loc, result >>

\* close_connection: "if client_id in self.db_connections" and the close() of the
\* connection found, which closes it or raises; with no entry the lock is left and
\* the confirmation returned
da_close(t) ==
    /\ pc[t] = "da_close"
    /\ IF ~Hashable(loc[t].client_id)
       THEN /\ lock' = Release(t)
            /\ da_except(t, Unhashable)
            /\ UNCHANGED << conns, loc >>
       ELSE IF loc[t].client_id.s \in DOMAIN db_connections
       THEN LET h == db_connections[loc[t].client_id.s]
            IN  \/ /\ conns' = [conns EXCEPT ![h] = Closed]
                   /\ loc' = [loc EXCEPT ![t].conn = h]
                   /\ pc' = [pc EXCEPT ![t] = "da_del"]
                   /\ UNCHANGED << lock, result >>
                \/ /\ lock' = Release(t)
                   /\ da_except(t, << "duckdb.Error: close" >>)
                   /\ UNCHANGED << conns, loc >>
       ELSE /\ lock' = Release(t)
            /\ Finish(t, da_confirmation(FALSE))
            /\ UNCHANGED << conns, loc >>
    /\ UNCHANGED << db_connections, req >>

\* close_connection: "del self.db_connections[client_id]", leaving the lock, and
\* the confirmation returned
da_del(t) ==
    /\ pc[t] = "da_del"
    /\ lock' = Release(t)
    /\ IF loc[t].client_id.s \in DOMAIN db_connections
       THEN /\ db_connections' = da_remove(loc[t].client_id.s)
            /\ Finish(t, da_confirmation(TRUE))
       ELSE /\ da_except(t, KeyErr)
            /\ UNCHANGED db_connections
    /\ UNCHANGED << conns, req, loc >>

(***************************************************************************)
(* The transport                                                           *)
(***************************************************************************)
\* the response has gone to the client; the worker thread takes the next call
Return(t) ==
    /\ pc[t] = "done"
    /\ pc' = [pc EXCEPT ![t] = "idle"]
    /\ req' = [req EXCEPT ![t] = NoRequest]
    /\ loc' = [loc EXCEPT ![t] = NoLocals]
    /\ result' = [result EXCEPT ![t] = NoResult]
    /\ UNCHANGED << db_connections, lock, conns >>

Next ==
    \E t \in Threads :
        \/ list_flights(t)
        \/ get_flight_info(t)
        \/ do_get(t)
        \/ run_query_do_get(t)
        \/ gc_lock(t)
        \/ gc_check(t)
        \/ gc_create(t)
        \/ gc_return(t)
        \/ dg_attach(t)
        \/ dg_execute(t)
        \/ do_action(t)
        \/ da_lock(t)
        \/ da_close(t)
        \/ da_del(t)
        \/ Return(t)

Spec == Init /\ [][Next]_vars

(***************************************************************************)
(* Properties                                                              *)
(***************************************************************************)
\* the request a payload decodes to has a non-empty query and a non-empty catalog_arn
ValidPayload(b) ==
    /\ json_loads(b).exc = << >>
    /\ json_loads(b).isDict
    /\ \A key \in {"query", "catalog_arn"} :
          /\ key \in DOMAIN json_loads(b).d
          /\ json_loads(b).d[key].t = "str"
          /\ json_loads(b).d[key].s # ""

\* the thread has served get_flight_info and its answer is at hand
GfiDone(t) == pc[t] = "done" /\ req[t].op = "get_flight_info"

\* C1: get_flight_info of a valid descriptor succeeds with exactly one endpoint
\* whose ticket is the descriptor's command, byte for byte, and the do_get that
\* redeems it decodes the query, catalog_arn and client_id of that command.
C1_TicketIsCommand ==
    [][\A t \in Threads :
          (GfiDone(t) /\ ValidPayload(req[t].bytes)) =>
             /\ result[t].kind = "FlightInfo"
             /\ Len(result[t].endpoints) = 1
             /\ result[t].endpoints[1].ticket = req[t].bytes
             /\ req'[t].op = "do_get" =>
                   /\ req'[t].bytes = req[t].bytes
                   /\ pc'[t] = "gc_lock"
                   /\ loc'[t].query = json_loads(req[t].bytes).d["query"]
                   /\ loc'[t].catalog_arn = json_loads(req[t].bytes).d["catalog_arn"]
                   /\ loc'[t].client_id =
                         get(json_loads(req[t].bytes).d, "client_id", Str("default"))
      ]_vars

\* C1 witness: a ticket was issued for a command that names no client_id
C1_Witness ==
    \E t \in Threads :
        /\ GfiDone(t)
        /\ ValidPayload(req[t].bytes)
        /\ "client_id" \notin DOMAIN json_loads(req[t].bytes).d
        /\ result[t].kind = "FlightInfo"
        /\ result[t].endpoints[1].ticket = req[t].bytes

\* C2: get_flight_info of a descriptor that cannot be decoded, or whose query or
\* catalog_arn is missing or empty, raises FlightServerError, issues no ticket, and
\* its step leaves the registry, the connections and the lock as they were.
C2_InvalidRejected ==
    [][\A t \in Threads :
          /\ (GfiDone(t) /\ ~ValidPayload(req[t].bytes)) =>
                /\ result[t].kind = "FlightServerError"
                /\ result[t].endpoints = << >>
                /\ result[t].exc # << >>
          /\ (pc[t] = "idle" /\ req'[t].op = "get_flight_info") =>
                /\ pc'[t] = "done"
                /\ UNCHANGED << db_connections, conns, lock >>
      ]_vars

\* C2 witness: a request with an empty query was rejected while a session exists
C2_Witness ==
    \E t \in Threads :
        /\ GfiDone(t)
        /\ req[t].bytes = json_dumps("", "catA", "c1")
        /\ result[t].kind = "FlightServerError"
        /\ "c1" \in DOMAIN db_connections

\* the thread is between its resolve and the end of its query
HoldsConn(t) == pc[t] \in {"dg_attach", "dg_execute"}

\* C3: while a client_id is in the registry its connection never changes: every
\* resolve returns the registered connection, a connection is constructed only
\* for a client_id that is absent, and an entry goes only by the del of a
\* close_connection for that client_id.
C3_SessionReused ==
    [][/\ \A c \in DOMAIN db_connections :
             IF c \in DOMAIN db_connections'
             THEN db_connections'[c] = db_connections[c]
             ELSE \E t \in Threads :
                     /\ pc[t] = "da_del"
                     /\ pc'[t] = "done"
                     /\ loc[t].client_id.s = c
       /\ \A t \in Threads :
             /\ (pc[t] = "gc_return" /\ pc'[t] = "dg_attach") =>
                   /\ loc[t].client_id.s \in DOMAIN db_connections
                   /\ loc'[t].conn = db_connections[loc[t].client_id.s]
             /\ (pc[t] = "gc_create" /\ pc'[t] # "gc_create") =>
                   loc[t].client_id.s \notin DOMAIN db_connections
      ]_vars

\* C3 witness: two requests of one client hold the one registered connection
C3_Witness ==
    \E t1, t2 \in Threads :
        /\ t1 # t2
        /\ HoldsConn(t1)
        /\ HoldsConn(t2)
        /\ loc[t1].client_id = loc[t2].client_id
        /\ loc[t1].conn = loc[t2].conn
        /\ loc[t1].client_id.s \in DOMAIN db_connections
        /\ db_connections[loc[t1].client_id.s] = loc[t1].conn

\* the thread has served a close_connection that found and closed a connection
TornDown(t) ==
    /\ pc[t] = "done"
    /\ req[t].op = "do_action"
    /\ loc[t].conn # NoHandle

\* C4: a completed teardown of a client_id leaves it out of the registry with its
\* connection closed; the next resolve for it goes to construction, and the
\* session registered is brand-new: a connection duckdb.connect had not returned
\* before, with every setup statement run on it and no catalog attached.
C4_FreshAfterTeardown ==
    [][/\ \A t \in Threads :
             /\ (pc[t] = "da_del" /\ pc'[t] = "done") =>
                   /\ loc[t].client_id.s \notin DOMAIN db_connections'
                   /\ conns'[loc[t].conn].state = "closed"
             /\ (pc[t] = "gc_check" /\ pc'[t] # "gc_check"
                   /\ Hashable(loc[t].client_id)
                   /\ loc[t].client_id.s \notin DOMAIN db_connections) =>
                   pc'[t] = "gc_create"
             /\ (pc[t] = "gc_create" /\ pc'[t] = "gc_return") =>
                   /\ loc[t].client_id.s \notin DOMAIN db_connections
                   /\ loc[t].client_id.s \in DOMAIN db_connections'
                   /\ conns[db_connections'[loc[t].client_id.s]].state = "unborn"
                   /\ conns'[db_connections'[loc[t].client_id.s]] =
                         [state |-> "open", setup |-> Len(SetupStatements),
                          attached |-> NoCatalog]
       /\ \A c \in DOMAIN db_connections' \ DOMAIN db_connections :
             \E t \in Threads :
                 pc[t] = "gc_create" /\ pc'[t] = "gc_return" /\ loc[t].client_id.s = c
      ]_vars

\* C4 witness: after a teardown of a client_id closed its connection, a do_get
\* for the same client_id has registered another connection, with nothing attached
C4_Witness ==
    \E t1, t2 \in Threads :
        /\ TornDown(t1)
        /\ pc[t2] = "gc_return"
        /\ loc[t2].client_id = loc[t1].client_id
        /\ loc[t2].client_id.s \in DOMAIN db_connections
        /\ db_connections[loc[t2].client_id.s] # loc[t1].conn
        /\ conns[loc[t1].conn].state = "closed"
        /\ conns[db_connections[loc[t2].client_id.s]].state = "open"
        /\ conns[db_connections[loc[t2].client_id.s]].attached = NoCatalog

\* the one-row table with a non-empty "error" and the fixed "details"
IsErrorTable(table) ==
    /\ table.columns = << "error", "details" >>
    /\ Len(table.rows) = 1
    /\ table.rows[1][1] # << >>
    /\ table.rows[1][2] = << "Query execution failed" >>

DoGetDone(t) == pc[t] = "done" /\ req[t].op = "do_get"

\* C5: do_get always returns a stream, never an exception: the stream holds the
\* query's table only when the ticket was valid and a session was resolved, and
\* otherwise, or when the execution failed, the one-row error table.
C5_ErrorsInBand ==
    \A t \in Threads :
        DoGetDone(t) =>
            /\ result[t].kind = "RecordBatchStream"
            /\ result[t].exc = << >>
            /\ \/ IsErrorTable(result[t].table)
               \/ /\ result[t].table = result_table(SQL_QUERY)
                  /\ ValidPayload(req[t].bytes)
                  /\ loc[t].conn # NoHandle
            /\ (~ValidPayload(req[t].bytes) \/ loc[t].conn = NoHandle) =>
                  IsErrorTable(result[t].table)

\* C5 witness: a query failed on a resolved connection and the error table was returned
C5_Witness ==
    \E t \in Threads :
        /\ DoGetDone(t)
        /\ loc[t].conn # NoHandle
        /\ conns[loc[t].conn].state = "open"
        /\ result[t].table = error_table(<< "duckdb.Error: ", SQL_QUERY >>)

\* what do_get returns when its execute step was reached: the outcomes of the
\* execute step alone
ExecuteResults(query) ==
    { RecordBatchStream(result_table(query.s)),
      RecordBatchStream(error_table(<< "duckdb.Error: ", query.s >>)),
      RecordBatchStream(error_table(ConnectionClosed)) }

\* C6: an attach attempt on a connection that has the catalog attached changes no
\* connection, fails with "already exists" and goes on to the execute step, whose
\* outcome is then what do_get returns; a connection's attached catalog, once
\* set, is never set again.
C6_AttachIdempotent ==
    [][/\ \A t \in Threads :
             /\ (pc[t] = "dg_attach" /\ pc'[t] # "dg_attach"
                   /\ conns[loc[t].conn].state = "open"
                   /\ conns[loc[t].conn].attached # NoCatalog) =>
                   /\ conns' = conns
                   /\ loc'[t].attach = "already exists"
                   /\ pc'[t] = "dg_execute"
                   /\ result'[t] = result[t]
             /\ (pc[t] = "dg_execute" /\ pc'[t] # "dg_execute"
                   /\ loc[t].attach = "already exists") =>
                   /\ pc'[t] = "done"
                   /\ result'[t] \in ExecuteResults(loc[t].query)
                   /\ conns[loc[t].conn].state # "open" =>
                         result'[t] = RecordBatchStream(error_table(ConnectionClosed))
       /\ \A h \in Handles :
             (conns[h].attached # NoCatalog /\ conns'[h].state = "open") =>
                conns'[h].attached = conns[h].attached
      ]_vars

\* C6 witness: the second redemption met "already exists" and its query succeeded
C6_Witness ==
    \E t \in Threads :
        /\ DoGetDone(t)
        /\ loc[t].attach = "already exists"
        /\ conns[loc[t].conn].attached = loc[t].catalog_arn.s
        /\ result[t].table = result_table(SQL_QUERY)

\* the thread has served a close_connection that raised nothing
Confirmed(t) ==
    /\ pc[t] = "done"
    /\ req[t].op = "do_action"
    /\ req[t].type = "close_connection"
    /\ result[t].kind = "Results"
    /\ result[t].body[1] # "Error: "

\* C7: a close_connection whose close() returns closes the connection registered
\* for its client_id and then removes that entry and no other, touching no other
\* connection; a close_connection for a client_id with no entry changes neither
\* registry nor connections and returns the confirmation, not a fault.
C7_TeardownRemovesOnlyItsEntry ==
    [][\A t \in Threads :
          /\ (pc[t] = "da_close" /\ pc'[t] = "da_del") =>
                /\ loc[t].client_id.s \in DOMAIN db_connections
                /\ loc'[t].conn = db_connections[loc[t].client_id.s]
                /\ conns'[loc'[t].conn].state = "closed"
                /\ \A h \in Handles \ {loc'[t].conn} : conns'[h] = conns[h]
                /\ db_connections' = db_connections
          /\ (pc[t] = "da_del" /\ pc'[t] # "da_del") =>
                /\ DOMAIN db_connections' = DOMAIN db_connections \ {loc[t].client_id.s}
                /\ \A c \in DOMAIN db_connections' : db_connections'[c] = db_connections[c]
                /\ conns' = conns
                /\ conns[loc[t].conn].state = "closed"
                /\ result'[t] = ActionResult(<< "Connection closed" >>)
                /\ lock' = NoThread
          /\ (pc[t] = "da_close" /\ pc'[t] # "da_close"
                /\ Hashable(loc[t].client_id)
                /\ loc[t].client_id.s \notin DOMAIN db_connections) =>
                /\ db_connections' = db_connections
                /\ conns' = conns
                /\ pc'[t] = "done"
                /\ result'[t] = ActionResult(<< "Connection closed" >>)
                /\ lock' = NoThread
      ]_vars

\* C7 witness: a teardown removed its client's entry and closed its connection
\* while the other client's session is still registered and open; the other
\* thread has then asked for the same teardown again and got the confirmation
C7_Witness ==
    \E t1, t2 \in Threads :
        /\ TornDown(t1)
        /\ Confirmed(t1)
        /\ conns[loc[t1].conn].state = "closed"
        /\ loc[t1].client_id.s \notin DOMAIN db_connections
        /\ \E c \in DOMAIN db_connections : conns[db_connections[c]].state = "open"
        /\ t2 # t1
        /\ Confirmed(t2)
        /\ loc[t2].client_id = loc[t1].client_id
        /\ loc[t2].conn = NoHandle

\* C8 as stated: the result of a teardown that removed a connection differs from
\* the result of one that found none.
C8_ResultTellsWhetherEntryExisted ==
    \A t1, t2 \in Threads :
        (Confirmed(t1) /\ Confirmed(t2)
            /\ loc[t1].conn # NoHandle /\ loc[t2].conn = NoHandle) =>
           result[t1] # result[t2]

\* C8 as amended: every close_connection that raises nothing returns the one
\* text "Connection closed", whether it removed a connection or found none.
C8_OneConfirmation ==
    \A t \in Threads :
        Confirmed(t) => result[t] = ActionResult(<< "Connection closed" >>)

\* C8 witness: one teardown removed a connection, another found none, and both
\* returned the same result
C8_Witness ==
    \E t1, t2 \in Threads :
        /\ Confirmed(t1)
        /\ Confirmed(t2)
        /\ loc[t1].conn # NoHandle
        /\ loc[t2].conn = NoHandle
        /\ result[t1] = result[t2]

DoActionDone(t) == pc[t] = "done" /\ req[t].op = "do_action"

\* C9: do_action always returns a result, never an exception: an action of another
\* type gets "Unknown action" in a step that leaves registry, connections and
\* lock as they were; a close_connection whose body cannot be decoded, whose
\* client_id cannot be looked up or whose close() raises gets "Error: ..." and
\* leaves the lock free.
C9_ActionErrorsInBand ==
    [][\A t \in Threads :
          /\ DoActionDone(t) =>
                /\ result[t].kind = "Results"
                /\ result[t].exc = << >>
                /\ result[t].body # << >>
                /\ req[t].type # "close_connection" =>
                      result[t].body = << "Unknown action" >>
                /\ (req[t].type = "close_connection"
                      /\ (json_loads(req[t].bytes).exc # << >>
                            \/ ~json_loads(req[t].bytes).isDict)) =>
                      (result[t].body[1] = "Error: " /\ Len(result[t].body) > 1)
          /\ (pc[t] = "idle" /\ req'[t].op = "do_action"
                /\ req'[t].type # "close_connection") =>
                /\ pc'[t] = "done"
                /\ UNCHANGED << db_connections, conns, lock >>
          /\ (pc[t] = "da_close" /\ pc'[t] = "done"
                /\ (~Hashable(loc[t].client_id)
                      \/ loc[t].client_id.s \in DOMAIN db_connections)) =>
                /\ result'[t].kind = "Results"
                /\ result'[t].body[1] = "Error: "
                /\ Len(result'[t].body) > 1
                /\ lock' = NoThread
                /\ UNCHANGED << db_connections, conns >>
      ]_vars

\* C9 witness: the close() of a registered connection raised and the action
\* returned the error as its result
C9_Witness ==
    \E t \in Threads :
        /\ DoActionDone(t)
        /\ result[t] = ActionResult(<< "Error: ", "duckdb.Error: close" >>)
        /\ loc[t].client_id.s \in DOMAIN db_connections
        /\ lock = NoThread

\* the steps of _get_connection and of close_connection inside "with self.lock:"
InCriticalSection(t) ==
    pc[t] \in {"gc_check", "gc_create", "gc_return", "da_close", "da_del"}

\* C10: the presence test, the construction and the insertion of a resolve, and
\* the steps of a teardown, run with the lock held; so every connection that is
\* open is the registered connection of a client_id, and every request that has
\* resolved a client_id holds the connection registered for it, unless a teardown
\* has closed that connection since.
C10_ResolveIsAtomic ==
    /\ \A t \in Threads : InCriticalSection(t) => lock = t
    /\ \A h \in Handles :
          conns[h].state = "open" =>
             \E c \in DOMAIN db_connections : db_connections[c] = h
    /\ \A t \in Threads :
          HoldsConn(t) =>
             \/ /\ loc[t].client_id.s \in DOMAIN db_connections
                /\ db_connections[loc[t].client_id.s] = loc[t].conn
             \/ conns[loc[t].conn].state = "closed"

\* C10 witness: two resolves of one absent client_id at the same time: one is
\* constructing the connection, the other waits for the lock
C10_Witness ==
    \E t1, t2 \in Threads :
        /\ pc[t1] = "gc_create"
        /\ pc[t2] = "gc_lock"
        /\ loc[t1].client_id = loc[t2].client_id
        /\ loc[t1].client_id.s \notin DOMAIN db_connections

\* C11: two different client_ids of the registry never have the same connection.
C11_NoSharedConnection ==
    \A c1, c2 \in DOMAIN db_connections :
        c1 # c2 => db_connections[c1] # db_connections[c2]

\* C11 witness: two client_ids are registered, each with its own open connection
C11_Witness ==
    \E c1, c2 \in DOMAIN db_connections :
        /\ c1 # c2
        /\ db_connections[c1] # db_connections[c2]
        /\ conns[db_connections[c1]].state = "open"
        /\ conns[db_connections[c2]].state = "open"

\* the thread's do_get ended because a setup statement raised
SetupFailed(t) ==
    /\ DoGetDone(t)
    /\ \E i \in 1..Len(SetupStatements) :
          result[t] = RecordBatchStream(error_table(<< "duckdb.Error: ", SetupStatements[i] >>))

\* C12: a construction in which a setup statement raises leaves the registry as it
\* was, with no entry for the client_id and no open connection outside the
\* registry, frees the lock, and hands the failure to do_get, which returns it as
\* the error table; a later resolve of that client_id finds it absent and goes to
\* construction again.
C12_FailedSetupRegistersNothing ==
    [][\A t \in Threads :
          /\ (pc[t] = "gc_create" /\ pc'[t] # "gc_create" /\ pc'[t] # "gc_return") =>
                /\ db_connections' = db_connections
                /\ loc[t].client_id.s \notin DOMAIN db_connections'
                /\ \A h \in Handles :
                      conns'[h].state = "open" =>
                         \E c \in DOMAIN db_connections' : db_connections'[c] = h
                /\ lock = t
                /\ lock' = NoThread
                /\ pc'[t] = "done"
                /\ SetupFailed(t)'
          /\ (pc[t] = "gc_check" /\ pc'[t] # "gc_check"
                /\ Hashable(loc[t].client_id)
                /\ loc[t].client_id.s \notin DOMAIN db_connections) =>
                pc'[t] = "gc_create"
      ]_vars

\* C12 witness: the setup of one request failed, nothing was registered, and a
\* later resolve of the same client_id is constructing again
C12_Witness ==
    \E t1, t2 \in Threads :
        /\ SetupFailed(t1)
        /\ pc[t2] = "gc_create"
        /\ lock = t2
        /\ loc[t2].client_id = loc[t1].client_id
        /\ loc[t1].client_id.s \notin DOMAIN db_connections

\* C13: the lock is held only by a thread inside _get_connection or inside the
\* with block of close_connection, never by a thread in the attach or the execute
\* step of do_get; so while a query runs the lock is free for any resolve or
\* teardown that asks for it.
C13_LockOnlyInResolveAndTeardown ==
    /\ lock # NoThread => (lock \in Threads /\ InCriticalSection(lock))
    /\ \A t \in Threads : HoldsConn(t) => lock # t
    /\ \A t \in Threads :
          (pc[t] \in {"gc_lock", "da_lock"}
              /\ \A u \in Threads \ {t} : ~InCriticalSection(u)) =>
             ENABLED (gc_lock(t) \/ da_lock(t))

\* C13 witness: one request is in its execute step while another thread, for the
\* same client_id, is inside a resolve with the lock
C13_Witness ==
    \E t1, t2 \in Threads :
        /\ pc[t1] = "dg_execute"
        /\ pc[t2] \in {"gc_check", "gc_return"}
        /\ lock = t2
        /\ loc[t1].client_id = loc[t2].client_id

\* C14: a teardown never waits for running requests: it gets the lock whenever
\* the lock is free, also while a do_get holds the connection it will close.  A
\* do_get whose attach attempt met a closed connection still returns a stream,
\* the error table that says the connection is closed, and that table is
\* returned only for a connection that is closed.
C14_TeardownUnderRunningQuery ==
    \A t \in Threads :
        /\ (pc[t] = "da_lock" /\ lock = NoThread) => ENABLED da_lock(t)
        /\ (DoGetDone(t) /\ loc[t].attach = "closed") =>
              result[t] = RecordBatchStream(error_table(ConnectionClosed))
        /\ (DoGetDone(t) /\ result[t] = RecordBatchStream(error_table(ConnectionClosed))) =>
              /\ loc[t].conn # NoHandle
              /\ conns[loc[t].conn].state = "closed"

\* C14 witness: a request that has resolved its connection is about to attach or
\* execute on it, and a teardown for the same client_id has closed and removed it
C14_Witness ==
    \E t1, t2 \in Threads :
        /\ HoldsConn(t1)
        /\ TornDown(t2)
        /\ Confirmed(t2)
        /\ loc[t2].conn = loc[t1].conn
        /\ loc[t2].client_id = loc[t1].client_id
        /\ conns[loc[t1].conn].state = "closed"

\* C15: a request in its attach or execute step can always take that step,
\* whatever the other threads do and whoever holds the lock: nothing excludes two
\* requests from one connection.
C15_NoPerSessionExclusion ==
    \A t \in Threads :
        /\ pc[t] = "dg_attach" => ENABLED dg_attach(t)
        /\ pc[t] = "dg_execute" => ENABLED dg_execute(t)

\* C15 witness: two requests of one client_id are in their execute step on the
\* same open connection
C15_Witness ==
    \E t1, t2 \in Threads :
        /\ t1 # t2
        /\ pc[t1] = "dg_execute"
        /\ pc[t2] = "dg_execute"
        /\ loc[t1].client_id = loc[t2].client_id
        /\ loc[t1].conn = loc[t2].conn
        /\ conns[loc[t1].conn].state = "open"

\* the thread is past the validation of do_get and not yet done
InSessionWork(t) ==
    pc[t] \in {"gc_lock", "gc_check", "gc_create", "gc_return", "dg_attach", "dg_execute"}

\* C16: a do_get whose ticket has no non-empty query or no non-empty catalog_arn
\* ends in the step that decodes it, with the error table, no connection resolved
\* and registry, connections and lock unchanged; every thread that resolves,
\* attaches or executes has a non-empty query and a non-empty catalog_arn.
C16_RejectedBeforeSessionWork ==
    [][\A t \in Threads :
          /\ (pc[t] \in {"idle", "done"} /\ req'[t] # req[t] /\ req'[t].op = "do_get"
                /\ ~ValidPayload(req'[t].bytes)) =>
                /\ pc'[t] = "done"
                /\ IsErrorTable(result'[t].table)
                /\ loc'[t].conn = NoHandle
                /\ loc'[t].attach = ""
                /\ UNCHANGED << db_connections, conns, lock >>
          /\ InSessionWork(t) =>
                /\ ValidPayload(req[t].bytes)
                /\ loc[t].query.t = "str"
                /\ loc[t].query.s # ""
                /\ loc[t].catalog_arn.t = "str"
                /\ loc[t].catalog_arn.s # ""
      ]_vars

\* C16 witness: a ticket with an empty query was rejected with the error table
\* while a session of its client_id is registered
C16_Witness ==
    \E t \in Threads :
        /\ DoGetDone(t)
        /\ req[t].bytes = json_dumps("", "catA", "c1")
        /\ result[t] = RecordBatchStream(error_table(MissingParameters))
        /\ loc[t].conn = NoHandle
        /\ "c1" \in DOMAIN db_connections

\* C17: a do_get with a valid ticket goes through resolve, attach attempt and
\* execute in that order, each once: the return of the resolve leads to the
\* attach step and nowhere else, the attach step is entered only from there,
\* makes exactly one attempt whatever the connection has attached, and leads to
\* the execute step whatever its outcome; the execute step is entered only from
\* the attach step and ends the request.
C17_ResolveAttachExecuteOnce ==
    [][\A t \in Threads :
          /\ (pc[t] = "gc_return" /\ pc'[t] # "gc_return") => pc'[t] = "dg_attach"
          /\ (pc'[t] = "dg_attach" /\ pc[t] # "dg_attach") =>
                (pc[t] = "gc_return" /\ loc'[t].attach = "")
          /\ (pc[t] = "dg_attach" /\ pc'[t] # "dg_attach") =>
                /\ pc'[t] = "dg_execute"
                /\ loc[t].attach = ""
                /\ loc'[t].attach \in {"attached", "already exists", "failed", "closed"}
          /\ (pc'[t] = "dg_execute" /\ pc[t] # "dg_execute") => pc[t] = "dg_attach"
          /\ (pc[t] = "dg_execute" /\ pc'[t] # "dg_execute") =>
                (pc'[t] = "done" /\ loc'[t].attach = loc[t].attach)
          /\ pc[t] = "dg_attach" => ENABLED dg_attach(t)
          /\ (pc'[t] = "gc_lock" /\ pc[t] # "gc_lock") =>
                (pc[t] \in {"idle", "done"} /\ ValidPayload(req'[t].bytes))
          /\ (pc[t] \in {"gc_lock", "gc_check", "gc_create", "gc_return",
                         "dg_attach", "dg_execute"} /\ pc'[t] # pc[t]) =>
                pc'[t] \in
                   CASE pc[t] = "gc_lock" -> {"gc_check"}
                     [] pc[t] = "gc_check" -> {"gc_return", "gc_create", "done"}
                     [] pc[t] = "gc_create" -> {"gc_return", "done"}
                     [] pc[t] = "gc_return" -> {"dg_attach"}
                     [] pc[t] = "dg_attach" -> {"dg_execute"}
                     [] pc[t] = "dg_execute" -> {"done"}
      ]_vars

\* C17 witness: the attach attempt failed for another reason than "already
\* exists" and the query was executed all the same, and succeeded
C17_Witness ==
    \E t \in Threads :
        /\ DoGetDone(t)
        /\ loc[t].attach = "failed"
        /\ result[t] = RecordBatchStream(result_table(SQL_QUERY))

\* the thread is in the steps of a close_connection for client_id c
ClosingFor(t, c) ==
    /\ req[t].op = "do_action"
    /\ req[t].type = "close_connection"
    /\ Hashable(loc[t].client_id)
    /\ loc[t].client_id.s = c

\* C18: an entry leaves the registry only in the del step of a close_connection
\* that names its client_id, and an open connection is closed only in the close
\* step of a close_connection that names the client_id it is registered for; the
\* steps of get_flight_info, list_flights, an unknown action and do_get remove
\* and close nothing.
C18_OnlyTeardownRemoves ==
    [][/\ \A c \in DOMAIN db_connections :
             c \notin DOMAIN db_connections' =>
                \E t \in Threads :
                    pc[t] = "da_del" /\ pc'[t] = "done" /\ ClosingFor(t, c)
       /\ \A h \in Handles :
             (conns[h].state = "open" /\ conns'[h].state # "open") =>
                \E t \in Threads :
                    /\ pc[t] = "da_close"
                    /\ pc'[t] = "da_del"
                    /\ \E c \in DOMAIN db_connections :
                          ClosingFor(t, c) /\ db_connections[c] = h
       /\ \A t \in Threads :
             (pc'[t] # pc[t]
                 /\ (req'[t].op \in {"get_flight_info", "list_flights", "do_get"}
                       \/ (req'[t].op = "do_action" /\ req'[t].type # "close_connection"))) =>
                /\ DOMAIN db_connections \subseteq DOMAIN db_connections'
                /\ \A h \in Handles : conns[h].state = "open" => conns'[h].state = "open"
      ]_vars

\* C18 witness: the query of a do_get failed after its attach had failed too, and
\* the session it used is still registered and open
C18_Witness ==
    \E t \in Threads :
        /\ DoGetDone(t)
        /\ loc[t].attach = "failed"
        /\ result[t] = RecordBatchStream(error_table(<< "duckdb.Error: ", SQL_QUERY >>))
        /\ loc[t].client_id.s \in DOMAIN db_connections
        /\ db_connections[loc[t].client_id.s] = loc[t].conn
        /\ conns[loc[t].conn].state = "open"

\* C19: the catalog attached in an open connection is never taken away nor
\* replaced: an attach attempt that names another catalog than the attached one
\* fails with "already exists", changes no connection and goes on to the
\* execute step, whose outcome do_get returns.
C19_FirstCatalogStays ==
    [][/\ \A h \in Handles :
             (conns[h].attached # NoCatalog /\ conns'[h].state = "open") =>
                conns'[h].attached = conns[h].attached
       /\ \A t \in Threads :
             /\ (pc[t] = "dg_attach" /\ pc'[t] # "dg_attach"
                   /\ conns[loc[t].conn].attached # NoCatalog
                   /\ conns[loc[t].conn].attached # loc[t].catalog_arn.s) =>
                   /\ conns' = conns
                   /\ loc'[t].attach = "already exists"
                   /\ pc'[t] = "dg_execute"
             /\ (pc[t] = "dg_execute" /\ pc'[t] # "dg_execute"
                   /\ loc[t].attach = "already exists"
                   /\ conns[loc[t].conn].state = "open") =>
                   /\ conns'[loc[t].conn].attached = conns[loc[t].conn].attached
                   /\ result'[t] \in
                         { RecordBatchStream(result_table(loc[t].query.s)),
                           RecordBatchStream(
                               error_table(<< "duckdb.Error: ", loc[t].query.s >>)) }
      ]_vars

\* C19 witness: a do_get that named another catalog than the one attached in its
\* session met "already exists" and its query succeeded; the first catalog is
\* still the one attached
C19_Witness ==
    \E t \in Threads :
        /\ DoGetDone(t)
        /\ loc[t].attach = "already exists"
        /\ conns[loc[t].conn].state = "open"
        /\ conns[loc[t].conn].attached # NoCatalog
        /\ conns[loc[t].conn].attached # loc[t].catalog_arn.s
        /\ result[t] = RecordBatchStream(result_table(SQL_QUERY))

\* C20 as stated: in every reachable state every connection of the registry is open.
C20_RegisteredAreOpen ==
    \A c \in DOMAIN db_connections : conns[db_connections[c]].state = "open"

\* C20 as amended: a connection of the registry is open, except the one a
\* close_connection that holds the lock has closed and is about to delete; and
\* the connection a resolve returns from the registry is open.
C20_RegisteredAreOpenOutsideTeardown ==
    [][/\ \A c \in DOMAIN db_connections :
             \/ conns[db_connections[c]].state = "open"
             \/ \E t \in Threads :
                   /\ pc[t] = "da_del"
                   /\ lock = t
                   /\ ClosingFor(t, c)
                   /\ loc[t].conn = db_connections[c]
       /\ \A t \in Threads :
             (pc[t] = "gc_return" /\ pc'[t] # "gc_return") =>
                /\ pc'[t] = "dg_attach"
                /\ loc'[t].conn = db_connections[loc[t].client_id.s]
                /\ conns[loc'[t].conn].state = "open"
      ]_vars

\* C20 witness: a teardown that holds the lock has closed the connection of its
\* client_id and not yet deleted the entry, while a resolve of that client_id
\* waits for the lock
C20_Witness ==
    \E t1, t2 \in Threads :
        /\ pc[t1] = "da_del"
        /\ lock = t1
        /\ loc[t1].client_id.s \in DOMAIN db_connections
        /\ conns[db_connections[loc[t1].client_id.s]].state = "closed"
        /\ pc[t2] = "gc_lock"
        /\ loc[t2].client_id = loc[t1].client_id

====
